---- MODULE Spec2Model ----
(***************************************************************************)
(* Model of infrastructure/aws/s3_bucket_setup.py: the provisioning of the *)
(* bronze, silver and gold buckets of the data lake.  One action per       *)
(* provider call of create_bucket, one for the start of create_data_lake   *)
(* and one for its final branch (the write of data_lake_config.json).      *)
(* The provider is the environment: a call is answered with success or     *)
(* with a ClientError code, chosen from what the bucket's owner allows.    *)
(***************************************************************************)
EXTENDS Integers, Sequences, FiniteSets, TLC

\* Number of times create_data_lake is run one after the other.
MaxRuns == 2

----------------------------------------------------------------------------
\* Module-level variables of the script.

PROJECT_NAME == "patient-outcome"

AWS_REGION == "us-west-2"

ENVIRONMENT == "dev"

BRONZE_BUCKET == PROJECT_NAME \o "-" \o ENVIRONMENT \o "-bronze-data"

SILVER_BUCKET == PROJECT_NAME \o "-" \o ENVIRONMENT \o "-silver-data"

GOLD_BUCKET == PROJECT_NAME \o "-" \o ENVIRONMENT \o "-gold-data"

\* The dict of create_data_lake, and the order in which items() yields it.
buckets == [bronze |-> BRONZE_BUCKET, silver |-> SILVER_BUCKET, gold |-> GOLD_BUCKET]

TierOrder == <<"bronze", "silver", "gold">>

Tiers == {TierOrder[i] : i \in 1..Len(TierOrder)}

BucketNames == {buckets[t] : t \in Tiers}

----------------------------------------------------------------------------
\* The requests create_bucket sends.

\* LocationConstraint of the create call; us-east-1 sends none.
CreateBucketConfiguration(region) ==
    IF region = "us-east-1" THEN "default" ELSE region

VersioningConfiguration == [Status |-> "Enabled"]

ServerSideEncryptionConfiguration ==
    [Rules |-> << [SSEAlgorithm |-> "AES256", BucketKeyEnabled |-> TRUE] >>]

PublicAccessBlockConfiguration ==
    [BlockPublicAcls |-> TRUE, IgnorePublicAcls |-> TRUE,
     BlockPublicPolicy |-> TRUE, RestrictPublicBuckets |-> TRUE]

\* Variant: the bronze branch carries the thresholds of the silver branch.
get_lifecycle_config_bronzeAsSilver(tier) ==
    IF tier = "bronze" \/ tier = "silver" THEN
        [Rules |-> << [ID |-> "Move to IA and Glacier", Status |-> "Enabled",
                       Prefix |-> "",
                       Transitions |-> << [Days |-> 30, StorageClass |-> "STANDARD_IA"],
                                          [Days |-> 90, StorageClass |-> "GLACIER"] >>] >>]
    ELSE
        [Rules |-> << [ID |-> "Move to IA", Status |-> "Enabled",
                       Prefix |-> "",
                       Transitions |-> << [Days |-> 30, StorageClass |-> "STANDARD_IA"] >>] >>]

get_lifecycle_config(tier) ==
    IF tier = "bronze" THEN
        [Rules |-> << [ID |-> "Move to IA and Glacier", Status |-> "Enabled",
                       Prefix |-> "",
                       Transitions |-> << [Days |-> 60, StorageClass |-> "STANDARD_IA"],
                                          [Days |-> 180, StorageClass |-> "GLACIER"] >>] >>]
    ELSE IF tier = "silver" THEN
        [Rules |-> << [ID |-> "Move to IA and Glacier", Status |-> "Enabled",
                       Prefix |-> "",
                       Transitions |-> << [Days |-> 30, StorageClass |-> "STANDARD_IA"],
                                          [Days |-> 90, StorageClass |-> "GLACIER"] >>] >>]
    ELSE
        [Rules |-> << [ID |-> "Move to IA", Status |-> "Enabled",
                       Prefix |-> "",
                       Transitions |-> << [Days |-> 30, StorageClass |-> "STANDARD_IA"] >>] >>]

Tagging(tier) ==
    << [Key |-> "Project", Value |-> "PatientOutcomePrediction"],
       [Key |-> "Environment", Value |-> ENVIRONMENT],
       [Key |-> "DataTier", Value |-> tier],
       [Key |-> "Contains-PHI", Value |-> "True"],
       [Key |-> "Compliance", Value |-> "HIPAA"] >>

\* Variant: the silver and gold names are exchanged in the dumped dict.
config_swapped ==
    [project |-> PROJECT_NAME, environment |-> ENVIRONMENT, region |-> AWS_REGION,
     buckets |-> [bronze |-> BRONZE_BUCKET, silver |-> GOLD_BUCKET, gold |-> SILVER_BUCKET]]

\* The dict create_data_lake dumps to data_lake_config.json.
config ==
    [project |-> PROJECT_NAME, environment |-> ENVIRONMENT, region |-> AWS_REGION,
     buckets |-> [bronze |-> BRONZE_BUCKET, silver |-> SILVER_BUCKET, gold |-> GOLD_BUCKET]]

----------------------------------------------------------------------------
\* State.  The provider's side: who owns each bucket name, where the bucket
\* was created and the configuration it holds.  The script's side: the
\* position in create_bucket, the loop of create_data_lake, the results and
\* the output file.  calls records the provider calls of the current run.

VARIABLES owner, location, versioning, encryption, publicAccessBlock,
          lifecycle, tagging,
          pc, tierIdx, success, ret, result, file, fileWrites,
          calls, run, prevResult, writesAtStart

provider == <<owner, location, versioning, encryption, publicAccessBlock,
              lifecycle, tagging>>

vars == <<owner, location, versioning, encryption, publicAccessBlock,
          lifecycle, tagging,
          pc, tierIdx, success, ret, result, file, fileWrites,
          calls, run, prevResult, writesAtStart>>

\* What a bucket holds before any put_* call reached it.
NoVersioning == [Status |-> "Unset"]

NoEncryption == [Rules |-> << >>]

NoPublicAccessBlock ==
    [BlockPublicAcls |-> FALSE, IgnorePublicAcls |-> FALSE,
     BlockPublicPolicy |-> FALSE, RestrictPublicBuckets |-> FALSE]

NoLifecycle == [Rules |-> << >>]

NoTagging == << >>

\* The provider calls of create_bucket, in the order of its try blocks.
StepOrder == <<"create_bucket", "put_bucket_versioning", "put_bucket_encryption",
               "put_public_access_block", "put_bucket_lifecycle_configuration",
               "put_bucket_tagging">>

\* The answers of the provider to a create call: a bucket of the caller is
\* reported as already owned (outside us-east-1), a name of another account
\* as taken, and any call may be refused.
CreateAnswers(b, region) ==
    IF owner[b] = "me"
    THEN {IF region = "us-east-1" THEN "Ok" ELSE "BucketAlreadyOwnedByYou", "AccessDenied"}
    ELSE IF owner[b] = "other" THEN {"BucketAlreadyExists", "AccessDenied"}
    ELSE {"Ok", "AccessDenied"}

\* The answers of the provider to a put_* call on a bucket.
PutAnswers(b) ==
    IF owner[b] = "me" THEN {"Ok", "AccessDenied"} ELSE {"NoSuchBucket", "AccessDenied"}

Init ==
    /\ owner \in [BucketNames -> {"none", "me", "other"}]
    /\ location = [b \in BucketNames |-> IF owner[b] = "me" THEN CreateBucketConfiguration(AWS_REGION) ELSE "none"]
    /\ versioning = [b \in BucketNames |-> NoVersioning]
    /\ encryption = [b \in BucketNames |-> NoEncryption]
    /\ publicAccessBlock = [b \in BucketNames |-> NoPublicAccessBlock]
    /\ lifecycle = [b \in BucketNames |-> NoLifecycle]
    /\ tagging = [b \in BucketNames |-> NoTagging]
    /\ pc = "idle"
    /\ tierIdx = 1
    /\ success = TRUE
    /\ ret = [t \in Tiers |-> "none"]
    /\ result = "none"
    /\ file = << >>
    /\ fileWrites = 0
    /\ calls = << >>
    /\ run = 0
    /\ prevResult = "none"
    /\ writesAtStart = 0

----------------------------------------------------------------------------
\* create_data_lake: start of a run and the loop over buckets.items().

\* The arguments of the create_bucket call in progress.
tier == TierOrder[tierIdx]

bucket_name == buckets[tier]

Logged(op, outcome) ==
    Append(calls, [bucket |-> bucket_name, tier |-> tier, op |-> op, outcome |-> outcome])

StartRun ==
    /\ pc \in {"idle", "done"}
    /\ run < MaxRuns
    /\ run' = run + 1
    /\ prevResult' = result
    /\ writesAtStart' = fileWrites
    /\ success' = TRUE
    /\ tierIdx' = 1
    /\ ret' = [t \in Tiers |-> "none"]
    /\ result' = "none"
    /\ calls' = << >>
    /\ pc' = "create_bucket"
    /\ UNCHANGED <<provider, file, fileWrites>>

\* Variant: the loop is left at the first create_bucket that returns False.
ReturnToLoop_break(value) ==
    /\ ret' = [ret EXCEPT ![tier] = value]
    /\ success' = IF value = "False" THEN FALSE ELSE success
    /\ IF tierIdx < Len(TierOrder) /\ value # "False"
       THEN tierIdx' = tierIdx + 1 /\ pc' = "create_bucket"
       ELSE tierIdx' = tierIdx /\ pc' = "finish"

\* create_bucket returns value to the loop: success is cleared on False and
\* the loop goes on with the next item, or leaves to the final branch.
ReturnToLoop(value) ==
    /\ ret' = [ret EXCEPT ![tier] = value]
    /\ success' = IF value = "False" THEN FALSE ELSE success
    /\ IF tierIdx < Len(TierOrder)
       THEN tierIdx' = tierIdx + 1 /\ pc' = "create_bucket"
       ELSE tierIdx' = tierIdx /\ pc' = "finish"

\* Variant: no error code of the create call is tolerated.
CreateTolerated_never(error_code) == FALSE

\* Variant: every error code of the create call is tolerated.
CreateTolerated_any(error_code) == TRUE

\* The except clause of the create call: which error codes let create_bucket go on.
CreateTolerated(error_code) == error_code = "BucketAlreadyOwnedByYou"

----------------------------------------------------------------------------
\* create_bucket: one action per try block.

CreateBucketCall ==
    /\ pc = "create_bucket"
    /\ \E answer \in CreateAnswers(bucket_name, AWS_REGION) :
        /\ calls' = Logged("create_bucket", answer)
        /\ IF answer = "Ok"
           THEN /\ owner' = [owner EXCEPT ![bucket_name] = "me"]
                /\ location' = [location EXCEPT ![bucket_name] = CreateBucketConfiguration(AWS_REGION)]
           ELSE UNCHANGED <<owner, location>>
        /\ IF answer = "Ok" \/ CreateTolerated(answer)
           THEN pc' = "put_bucket_versioning" /\ UNCHANGED <<tierIdx, success, ret>>
           ELSE ReturnToLoop("False")
    /\ UNCHANGED <<versioning, encryption, publicAccessBlock, lifecycle, tagging,
                   result, file, fileWrites, run, prevResult, writesAtStart>>

\* Variant: the except clause logs the error and does not return.
PutBucketVersioning_ignoreError ==
    /\ pc = "put_bucket_versioning"
    /\ \E answer \in PutAnswers(bucket_name) :
        /\ calls' = Logged("put_bucket_versioning", answer)
        /\ versioning' = IF answer = "Ok"
                         THEN [versioning EXCEPT ![bucket_name] = VersioningConfiguration]
                         ELSE versioning
        /\ pc' = "put_bucket_encryption"
        /\ UNCHANGED <<tierIdx, success, ret>>
    /\ UNCHANGED <<owner, location, encryption, publicAccessBlock, lifecycle, tagging,
                   result, file, fileWrites, run, prevResult, writesAtStart>>

PutBucketVersioning ==
    /\ pc = "put_bucket_versioning"
    /\ \E answer \in PutAnswers(bucket_name) :
        /\ calls' = Logged("put_bucket_versioning", answer)
        /\ IF answer = "Ok"
           THEN /\ versioning' = [versioning EXCEPT ![bucket_name] = VersioningConfiguration]
                /\ pc' = "put_bucket_encryption"
                /\ UNCHANGED <<tierIdx, success, ret>>
           ELSE /\ UNCHANGED versioning
                /\ ReturnToLoop("False")
    /\ UNCHANGED <<owner, location, encryption, publicAccessBlock, lifecycle, tagging,
                   result, file, fileWrites, run, prevResult, writesAtStart>>

\* Variant: a failed encryption call clears success and the steps go on.
PutBucketEncryption_continue ==
    /\ pc = "put_bucket_encryption"
    /\ \E answer \in PutAnswers(bucket_name) :
        /\ calls' = Logged("put_bucket_encryption", answer)
        /\ encryption' = IF answer = "Ok"
                         THEN [encryption EXCEPT ![bucket_name] = ServerSideEncryptionConfiguration]
                         ELSE encryption
        /\ success' = IF answer = "Ok" THEN success ELSE FALSE
        /\ pc' = "put_public_access_block"
        /\ UNCHANGED <<tierIdx, ret>>
    /\ UNCHANGED <<owner, location, versioning, publicAccessBlock, lifecycle, tagging,
                   result, file, fileWrites, run, prevResult, writesAtStart>>

PutBucketEncryption ==
    /\ pc = "put_bucket_encryption"
    /\ \E answer \in PutAnswers(bucket_name) :
        /\ calls' = Logged("put_bucket_encryption", answer)
        /\ IF answer = "Ok"
           THEN /\ encryption' = [encryption EXCEPT ![bucket_name] = ServerSideEncryptionConfiguration]
                /\ pc' = "put_public_access_block"
                /\ UNCHANGED <<tierIdx, success, ret>>
           ELSE /\ UNCHANGED encryption
                /\ ReturnToLoop("False")
    /\ UNCHANGED <<owner, location, versioning, publicAccessBlock, lifecycle, tagging,
                   result, file, fileWrites, run, prevResult, writesAtStart>>

PutPublicAccessBlock ==
    /\ pc = "put_public_access_block"
    /\ \E answer \in PutAnswers(bucket_name) :
        /\ calls' = Logged("put_public_access_block", answer)
        /\ IF answer = "Ok"
           THEN /\ publicAccessBlock' = [publicAccessBlock EXCEPT ![bucket_name] = PublicAccessBlockConfiguration]
                /\ pc' = "put_bucket_lifecycle_configuration"
                /\ UNCHANGED <<tierIdx, success, ret>>
           ELSE /\ UNCHANGED publicAccessBlock
                /\ ReturnToLoop("False")
    /\ UNCHANGED <<owner, location, versioning, encryption, lifecycle, tagging,
                   result, file, fileWrites, run, prevResult, writesAtStart>>

\* Variant: a failed lifecycle call is issued once more before giving up.
PutBucketLifecycleConfiguration_retry ==
    /\ pc = "put_bucket_lifecycle_configuration"
    /\ \E answer \in PutAnswers(bucket_name) :
        /\ calls' = Logged("put_bucket_lifecycle_configuration", answer)
        /\ IF answer = "Ok"
           THEN /\ lifecycle' = [lifecycle EXCEPT ![bucket_name] = get_lifecycle_config(tier)]
                /\ pc' = "put_bucket_tagging"
                /\ UNCHANGED <<tierIdx, success, ret>>
           ELSE /\ UNCHANGED lifecycle
                /\ IF calls[Len(calls)].op # "put_bucket_lifecycle_configuration"
                   THEN UNCHANGED <<pc, tierIdx, success, ret>>
                   ELSE ReturnToLoop("False")
    /\ UNCHANGED <<owner, location, versioning, encryption, publicAccessBlock, tagging,
                   result, file, fileWrites, run, prevResult, writesAtStart>>

PutBucketLifecycleConfiguration ==
    /\ pc = "put_bucket_lifecycle_configuration"
    /\ \E answer \in PutAnswers(bucket_name) :
        /\ calls' = Logged("put_bucket_lifecycle_configuration", answer)
        /\ IF answer = "Ok"
           THEN /\ lifecycle' = [lifecycle EXCEPT ![bucket_name] = get_lifecycle_config(tier)]
                /\ pc' = "put_bucket_tagging"
                /\ UNCHANGED <<tierIdx, success, ret>>
           ELSE /\ UNCHANGED lifecycle
                /\ ReturnToLoop("False")
    /\ UNCHANGED <<owner, location, versioning, encryption, publicAccessBlock, tagging,
                   result, file, fileWrites, run, prevResult, writesAtStart>>

\* Variant: a failed tagging call deletes the bucket before returning False.
PutBucketTagging_rollback ==
    /\ pc = "put_bucket_tagging"
    /\ \E answer \in PutAnswers(bucket_name) :
        /\ calls' = Logged("put_bucket_tagging", answer)
        /\ IF answer = "Ok"
           THEN /\ tagging' = [tagging EXCEPT ![bucket_name] = Tagging(tier)]
                /\ UNCHANGED <<owner, location, versioning, encryption,
                               publicAccessBlock, lifecycle>>
                /\ ReturnToLoop("True")
           ELSE /\ owner' = [owner EXCEPT ![bucket_name] = "none"]
                /\ location' = [location EXCEPT ![bucket_name] = "none"]
                /\ versioning' = [versioning EXCEPT ![bucket_name] = NoVersioning]
                /\ encryption' = [encryption EXCEPT ![bucket_name] = NoEncryption]
                /\ publicAccessBlock' = [publicAccessBlock EXCEPT ![bucket_name] = NoPublicAccessBlock]
                /\ lifecycle' = [lifecycle EXCEPT ![bucket_name] = NoLifecycle]
                /\ tagging' = [tagging EXCEPT ![bucket_name] = NoTagging]
                /\ ReturnToLoop("False")
    /\ UNCHANGED <<result, file, fileWrites, run, prevResult, writesAtStart>>

PutBucketTagging ==
    /\ pc = "put_bucket_tagging"
    /\ \E answer \in PutAnswers(bucket_name) :
        /\ calls' = Logged("put_bucket_tagging", answer)
        /\ IF answer = "Ok"
           THEN /\ tagging' = [tagging EXCEPT ![bucket_name] = Tagging(tier)]
                /\ ReturnToLoop("True")
           ELSE /\ UNCHANGED tagging
                /\ ReturnToLoop("False")
    /\ UNCHANGED <<owner, location, versioning, encryption, publicAccessBlock, lifecycle,
                   result, file, fileWrites, run, prevResult, writesAtStart>>

----------------------------------------------------------------------------
\* create_data_lake: the branch on success after the loop.

\* Variant: the file is written before the branch on success.
Finish_alwaysWrites ==
    /\ pc = "finish"
    /\ file' = << config >>
    /\ fileWrites' = fileWrites + 1
    /\ result' = IF success THEN "True" ELSE "False"
    /\ pc' = "done"
    /\ UNCHANGED <<provider, tierIdx, success, ret, calls, run, prevResult, writesAtStart>>

Finish ==
    /\ pc = "finish"
    /\ IF success
       THEN /\ file' = << config >>
            /\ fileWrites' = fileWrites + 1
            /\ result' = "True"
       ELSE /\ UNCHANGED <<file, fileWrites>>
            /\ result' = "False"
    /\ pc' = "done"
    /\ UNCHANGED <<provider, tierIdx, success, ret, calls, run, prevResult, writesAtStart>>

Next ==
    \/ StartRun
    \/ CreateBucketCall
    \/ PutBucketVersioning
    \/ PutBucketEncryption
    \/ PutPublicAccessBlock
    \/ PutBucketLifecycleConfiguration
    \/ PutBucketTagging
    \/ Finish

Spec == Init /\ [][Next]_vars

\* A run that has started is carried through: the script is sequential and
\* every provider call returns.
FairSpec == Spec /\ WF_vars(CreateBucketCall) /\ WF_vars(PutBucketVersioning)
                 /\ WF_vars(PutBucketEncryption) /\ WF_vars(PutPublicAccessBlock)
                 /\ WF_vars(PutBucketLifecycleConfiguration)
                 /\ WF_vars(PutBucketTagging) /\ WF_vars(Finish)

----------------------------------------------------------------------------
\* Vocabulary of the properties.

\* The calls of the current run that were made on bucket b, in order.
CallsOf(b) == SelectSeq(calls, LAMBDA c : c.bucket = b)

\* The positions of calls at which op was called on bucket b.
CallsAt(b, op) == {i \in DOMAIN calls : calls[i].bucket = b /\ calls[i].op = op}

\* A call the provider answered with an error other than 'already owned'.
Failed(c) == c.outcome \notin {"Ok", "BucketAlreadyOwnedByYou"}

Returned(t) == ret[t] # "none"

Running == pc \notin {"idle", "done"}

\* The transitions of section 4.1, as (days, storage class) pairs.
DocumentedTransitions ==
    [bronze |-> << <<60, "STANDARD_IA">>, <<180, "GLACIER">> >>,
     silver |-> << <<30, "STANDARD_IA">>, <<90, "GLACIER">> >>,
     gold   |-> << <<30, "STANDARD_IA">> >>]

TransitionsOf(rule) ==
    [i \in DOMAIN rule.Transitions |->
        <<rule.Transitions[i].Days, rule.Transitions[i].StorageClass>>]

\* The lifecycle policy held by a bucket is the documented one of tier t.
HasDocumentedLifecycle(b, t) ==
    /\ Len(lifecycle[b].Rules) = 1
    /\ lifecycle[b].Rules[1].Status = "Enabled"
    /\ TransitionsOf(lifecycle[b].Rules[1]) = DocumentedTransitions[t]

TagValue(b, key) == {tagging[b][i].Value : i \in {j \in DOMAIN tagging[b] : tagging[b][j].Key = key}}

\* Bucket b exists and holds all that create_bucket applies for tier t.
FullyConfigured(b, t) ==
    /\ owner[b] = "me"
    /\ versioning[b].Status = "Enabled"
    /\ Len(encryption[b].Rules) = 1
    /\ encryption[b].Rules[1].SSEAlgorithm = "AES256"
    /\ publicAccessBlock[b].BlockPublicAcls
    /\ publicAccessBlock[b].IgnorePublicAcls
    /\ publicAccessBlock[b].BlockPublicPolicy
    /\ publicAccessBlock[b].RestrictPublicBuckets
    /\ HasDocumentedLifecycle(b, t)
    /\ TagValue(b, "DataTier") = {t}
    /\ TagValue(b, "Compliance") = {"HIPAA"}
    /\ TagValue(b, "Contains-PHI") = {"True"}
    /\ TagValue(b, "Project") = {"PatientOutcomePrediction"}
    /\ TagValue(b, "Environment") = {"dev"}

\* The configuration put by step i of StepOrder is held by bucket b.
StepApplied(b, t, i) ==
    CASE i = 1 -> owner[b] = "me"
      [] i = 2 -> versioning[b].Status = "Enabled"
      [] i = 3 -> Len(encryption[b].Rules) = 1
      [] i = 4 -> publicAccessBlock[b].BlockPublicAcls
      [] i = 5 -> HasDocumentedLifecycle(b, t)
      [] OTHER -> TagValue(b, "DataTier") = {t}

----------------------------------------------------------------------------
\* C1: the lifecycle policy that create_bucket puts on the bucket of a tier
\* (the value of get_lifecycle_config for that tier) has exactly one rule, the
\* rule is enabled, and its transitions are, in order, bronze: 60 days to
\* STANDARD_IA then 180 days to GLACIER; silver: 30 days to STANDARD_IA then
\* 90 days to GLACIER; gold: 30 days to STANDARD_IA; and nothing else.
C1_LifecyclePerTier ==
    \A t \in Tiers :
        lifecycle[buckets[t]] # NoLifecycle => HasDocumentedLifecycle(buckets[t], t)

C1_Witness ==
    \A t \in Tiers : lifecycle[buckets[t]] # NoLifecycle

C3_ConfigFile ==
    (pc = "done" /\ fileWrites > writesAtStart) =>
        /\ Len(file) = 1
        /\ DOMAIN file[1].buckets = {"bronze", "silver", "gold"}
        /\ \A t \in DOMAIN file[1].buckets :
             /\ CallsAt(file[1].buckets[t], "create_bucket") # {}
             /\ \A i \in DOMAIN calls : calls[i].tier = t => calls[i].bucket = file[1].buckets[t]
             /\ location[file[1].buckets[t]] = file[1].region
             /\ TagValue(file[1].buckets[t], "Environment") = {file[1].environment}
        /\ file[1].project = "patient-outcome"
        /\ file[1].environment = "dev"
        /\ file[1].region = "us-west-2"

C3_Witness ==
    /\ pc = "done"
    /\ fileWrites > writesAtStart
    /\ file # << >>

\* C4 as stated: for a bucket whose create step succeeded, all five
\* configuration steps have been issued when create_bucket returns, whatever
\* the provider answered to each of them.
C4_Original ==
    \A t \in Tiers :
        LET s == CallsOf(buckets[t]) IN
        (Returned(t) /\ s # << >> /\ ~Failed(s[1])) =>
            \A k \in 2..Len(StepOrder) : CallsAt(buckets[t], StepOrder[k]) # {}

\* C4 amended: a failed configuration step is reported (create_bucket
\* returns False and the run returns False), the steps before it stay
\* applied, and it is the last call issued on that bucket in the run: the
\* remaining configuration steps of the bucket are skipped.
C4_FailFast ==
    \A t \in Tiers :
        LET s == CallsOf(buckets[t]) IN
        \A i \in 2..Len(s) :
            Failed(s[i]) =>
                /\ i = Len(s)
                /\ ret[t] = "False"
                /\ ~success
                /\ pc = "done" => result = "False"
                /\ \A j \in 1..(i - 1) : StepApplied(buckets[t], t, j)
                /\ \A k \in (i + 1)..Len(StepOrder) : CallsAt(buckets[t], StepOrder[k]) = {}

C4_Witness ==
    /\ pc = "done"
    /\ \E i \in DOMAIN calls :
         /\ calls[i].op = "put_bucket_encryption"
         /\ Failed(calls[i])
         /\ calls[i].tier = "bronze"
    /\ ret["silver"] = "True"

\* C5: a finished run has called create_bucket for bronze, then silver, then
\* gold, whatever the earlier tiers returned, and its result is True exactly
\* when create_bucket returned True for each of the three tiers.
C5_Aggregate ==
    pc = "done" =>
        /\ \A t \in Tiers : Returned(t)
        /\ LET creates == SelectSeq(calls, LAMBDA c : c.op = "create_bucket")
           IN  [i \in DOMAIN creates |-> creates[i].tier] = <<"bronze", "silver", "gold">>
        /\ result = "True" <=> \A t \in Tiers : ret[t] = "True"
        /\ result \in {"True", "False"}

C5_Witness ==
    /\ pc = "done"
    /\ ret["bronze"] = "False"
    /\ ret["silver"] = "True"
    /\ ret["gold"] = "False"

\* C6: no step takes anything back: a bucket of the caller stays a bucket of
\* the caller, and a versioning, encryption, public-access, lifecycle or tag
\* configuration that a bucket holds is still held after every step, within a
\* run and from one run to the next.
Monotone ==
    \A b \in BucketNames :
        /\ owner[b] = "me" => owner'[b] = "me"
        /\ versioning[b] # NoVersioning => versioning'[b] = versioning[b]
        /\ encryption[b] # NoEncryption => encryption'[b] = encryption[b]
        /\ publicAccessBlock[b] # NoPublicAccessBlock => publicAccessBlock'[b] = publicAccessBlock[b]
        /\ lifecycle[b] # NoLifecycle => lifecycle'[b] = lifecycle[b]
        /\ tagging[b] # NoTagging => tagging'[b] = tagging[b]

C6_NoRollback == [][Monotone]_vars

C6_Witness ==
    /\ run = 2
    /\ \E i \in DOMAIN calls :
         /\ Failed(calls[i])
         /\ calls[i].op = "put_bucket_tagging"
         /\ lifecycle[calls[i].bucket] # NoLifecycle
         /\ tagging[calls[i].bucket] # NoTagging

\* C7: the calls on a bucket are create, versioning, encryption, public
\* access block, lifecycle, tagging in that order, each issued only after all
\* the calls before it succeeded (create: or was answered 'already owned');
\* and when create_bucket returned True all six succeeded and the bucket
\* exists with versioning enabled, AES256 encryption, the four public-access
\* blocks, the lifecycle policy of its tier and the compliance tags.
C7_OrderAndResult ==
    \A t \in Tiers :
        LET s == CallsOf(buckets[t]) IN
        /\ Len(s) <= Len(StepOrder)
        /\ \A i \in DOMAIN s :
             /\ s[i].op = StepOrder[i]
             /\ i < Len(s) => ~Failed(s[i])
        /\ ret[t] = "True" =>
             /\ Len(s) = Len(StepOrder)
             /\ \A i \in DOMAIN s : ~Failed(s[i])
             /\ FullyConfigured(buckets[t], t)

C7_Witness ==
    /\ ret["gold"] = "True"
    /\ Len(CallsOf(buckets["gold"])) = 6
    /\ CallsOf(buckets["gold"])[1].outcome = "Ok"

\* C8: a finished run has written data_lake_config.json exactly when its 18
\* provider calls were all issued and none failed; nothing is written before
\* the run is finished, so the write comes after the last provider call; and
\* a run in which a step failed leaves the file as it was, absent or present.
C8_FileWrittenIffAllOk ==
    /\ fileWrites \in {writesAtStart, writesAtStart + 1}
    /\ pc # "done" => fileWrites = writesAtStart
    /\ pc = "done" =>
         (fileWrites = writesAtStart + 1
            <=> (Len(calls) = 18 /\ \A i \in DOMAIN calls : ~Failed(calls[i])))
    /\ (pc = "done" /\ \E i \in DOMAIN calls : Failed(calls[i])) =>
         /\ fileWrites = writesAtStart
         /\ result = "False"
    /\ file = << >> <=> fileWrites = 0

C8_Witness ==
    /\ pc = "done"
    /\ run = 2
    /\ writesAtStart = 1
    /\ fileWrites = 1
    /\ file # << >>
    /\ \E i \in DOMAIN calls : Failed(calls[i])

\* C9: when the create call of a bucket fails with an error other than
\* 'already owned by caller', create_bucket returns False and no
\* configuration call is issued on that bucket in the run, and the tiers
\* after it are still provisioned.
C9_CreateFailure ==
    \A t \in Tiers :
        LET s == CallsOf(buckets[t]) IN
        (s # << >> /\ Failed(s[1])) =>
            /\ Len(s) = 1
            /\ ret[t] = "False"
            /\ \A k \in 2..Len(StepOrder) : CallsAt(buckets[t], StepOrder[k]) = {}
            /\ pc = "done" => \A u \in Tiers : CallsAt(buckets[u], "create_bucket") # {}

C9_Witness ==
    /\ pc = "done"
    /\ CallsOf(buckets["bronze"])[1].outcome = "BucketAlreadyExists"
    /\ ret["silver"] = "True"
    /\ ret["gold"] = "True"

\* C10: in a run each provider call is issued at most once on each bucket,
\* hence at most 18 calls, a failed call is not issued again, and every run
\* that has started ends with the result True or False.
NoRetry ==
    /\ Len(calls) <= 18
    /\ \A b \in BucketNames : \A k \in DOMAIN StepOrder :
         Cardinality(CallsAt(b, StepOrder[k])) <= 1

C10_NoRetryAndTermination ==
    /\ []NoRetry
    /\ Running ~> (pc = "done" /\ result \in {"True", "False"})

C10_Witness ==
    /\ pc = "done"
    /\ result = "False"
    /\ Len(calls) = 17
    /\ Failed(calls[17])

====
